---- MODULE Spec2Model ----
(***************************************************************************)
(* Model of the two batch rewriters scripts/convert-tests.py (prefix ct_)  *)
(* and scripts/convert-tests-effect-vitest.py (prefix ev_).  A text is a   *)
(* sequence of one-character strings; Python's str and re operations are   *)
(* modelled by what they compute on such sequences.                        *)
(***************************************************************************)
EXTENDS Integers, Sequences, FiniteSets, TLC

(***************************************************************************)
(* Python str operations                                                   *)
(***************************************************************************)

\* str.isspace() on one character, and the class \s of re
Whitespace == {" ", "\n", "\t", "\r"}

\* the class \w of re (ASCII letters, digits, underscore)
WordChars ==
  {"a","b","c","d","e","f","g","h","i","j","k","l","m","n","o","p","q","r","s","t","u","v","w","x","y","z",
   "A","B","C","D","E","F","G","H","I","J","K","L","M","N","O","P","Q","R","S","T","U","V","W","X","Y","Z",
   "0","1","2","3","4","5","6","7","8","9","_"}

\* s[i:j] for 1-based i and exclusive j
Slice(s, i, j) == SubSeq(s, i, j - 1)

\* s.startswith(t, pos) for a 1-based pos
StartsAt(s, t, pos) ==
  /\ pos + Len(t) - 1 <= Len(s)
  /\ \A k \in 1..Len(t) : s[pos + k - 1] = t[k]

\* t in s
Contains(s, t) == \E p \in 1..(Len(s) - Len(t) + 1) : StartsAt(s, t, p)

\* the least element of a non-empty set of integers
Least(S) == CHOOSE m \in S : \A k \in S : m <= k

\* the greatest element of a non-empty set of integers
Greatest(S) == CHOOSE m \in S : \A k \in S : m >= k

\* s.find(t, pos): the first position >= pos where t stands, 0 when there is none
Find(s, t, pos) ==
  LET at == {p \in pos..(Len(s) - Len(t) + 1) : StartsAt(s, t, p)}
  IN IF at = {} THEN 0 ELSE Least(at)

RECURSIVE CountFrom(_, _, _)
CountFrom(s, t, pos) ==
  LET p == Find(s, t, pos)
  IN IF p = 0 THEN 0 ELSE 1 + CountFrom(s, t, p + Len(t))

\* s.count(t): the non-overlapping occurrences of a non-empty t
Count(s, t) == CountFrom(s, t, 1)

RECURSIVE ReplaceFrom(_, _, _, _)
ReplaceFrom(s, old, new, pos) ==
  LET p == Find(s, old, pos)
  IN IF p = 0 THEN Slice(s, pos, Len(s) + 1)
     ELSE Slice(s, pos, p) \o new \o ReplaceFrom(s, old, new, p + Len(old))

\* s.replace(old, new) for a non-empty old
Replace(s, old, new) == ReplaceFrom(s, old, new, 1)

\* s.lstrip(): s from its first non-whitespace character on
LStrip(s) ==
  LET keep == {p \in 1..Len(s) : s[p] \notin Whitespace}
  IN IF keep = {} THEN <<>> ELSE Slice(s, Least(keep), Len(s) + 1)

\* s.rstrip(): s up to its last non-whitespace character
RStrip(s) ==
  LET keep == {p \in 1..Len(s) : s[p] \notin Whitespace}
  IN IF keep = {} THEN <<>> ELSE Slice(s, 1, Greatest(keep) + 1)

Strip(s) == LStrip(RStrip(s))

RECURSIVE SplitFrom(_, _, _)
SplitFrom(s, sep, start) ==
  LET p == Find(s, sep, start)
  IN IF p = 0 THEN <<Slice(s, start, Len(s) + 1)>>
     ELSE <<Slice(s, start, p)>> \o SplitFrom(s, sep, p + Len(sep))

\* s.split(sep)
Split(s, sep) == SplitFrom(s, sep, 1)

\* s.split('\n')
SplitLines(s) == Split(s, <<"\n">>)

RECURSIVE JoinLines(_)
\* '\n'.join(lines)
JoinLines(lines) ==
  IF lines = <<>> THEN <<>>
  ELSE IF Len(lines) = 1 THEN lines[1]
  ELSE lines[1] \o <<"\n">> \o JoinLines(Tail(lines))

\* list.insert(i, x) for a 0-based i >= 0: past the end it appends
ListInsert(lines, i, x) ==
  IF i >= Len(lines) THEN Append(lines, x)
  ELSE SubSeq(lines, 1, i) \o <<x>> \o SubSeq(lines, i + 1, Len(lines))

(***************************************************************************)
(* Python re: a backtracking matcher over a pattern given as a sequence of *)
(* items, tried in re's order (greedy: longest first, lazy: shortest       *)
(* first), so that the match found is the one re finds.                    *)
(***************************************************************************)

\* character classes: the characters of set, or with neg all the others
Cls(set) == [neg |-> FALSE, set |-> set]
NotCls(set) == [neg |-> TRUE, set |-> set]
InClass(c, k) == (c \in k.set) # k.neg

\* pattern items
One(k) == [t |-> "rep", k |-> k, min |-> 1, many |-> FALSE, greedy |-> TRUE]
Opt(k) == [t |-> "rep", k |-> k, min |-> 0, many |-> FALSE, greedy |-> TRUE]
Star(k) == [t |-> "rep", k |-> k, min |-> 0, many |-> TRUE, greedy |-> TRUE]
Plus(k) == [t |-> "rep", k |-> k, min |-> 1, many |-> TRUE, greedy |-> TRUE]
LazyStar(k) == [t |-> "rep", k |-> k, min |-> 0, many |-> TRUE, greedy |-> FALSE]
Open(g) == [t |-> "open", g |-> g]
Close(g) == [t |-> "close", g |-> g]
GroupStar(body) == [t |-> "grp", body |-> body]
WordBoundary == [t |-> "wb"]

\* a literal text as a pattern (of one item)
Lit(text) == <<[t |-> "lit", text |-> text]>>

\* the classes the patterns use
SpaceCls == Cls(Whitespace)
NotComma == NotCls({","})
NotRBrace == NotCls({"}"})
AnyChar == NotCls({})
Dot == NotCls({"\n"})
Quote == Cls({"'", "\""})

\* the most capture groups a pattern of the scripts has
NGroups == 4

NoMatch == [ok |-> FALSE]
NoCaps == [g \in 1..NGroups |-> <<0, 0>>]

\* how many characters of class k stand at pos, pos+1, ...
Run(s, pos, k) ==
  Least({p \in pos..(Len(s) + 1) : p = Len(s) + 1 \/ ~InClass(s[p], k)}) - pos

\* \b at pos: exactly one of the characters before and at pos is a word character
AtWordBoundary(s, pos) ==
  (pos > 1 /\ s[pos - 1] \in WordChars) # (pos <= Len(s) /\ s[pos] \in WordChars)

RECURSIVE Match(_, _, _, _)
RECURSIVE TryDown(_, _, _, _, _)
RECURSIVE TryUp(_, _, _, _, _)

\* whether the pattern rest can start at p at all: when it begins with a
\* character that must be there, that character stands at p
Viable(s, rest, p) ==
  \/ rest = <<>>
  \/ Head(rest).t \notin {"rep", "lit"}
  \/ (Head(rest).t = "lit" /\ StartsAt(s, Head(rest).text, p))
  \/ (Head(rest).t = "rep" /\ Head(rest).min = 0)
  \/ (Head(rest).t = "rep" /\ p <= Len(s) /\ InClass(s[p], Head(rest).k))

\* the repetition counts in min..max worth trying
Counts(s, rest, pos, min, max) == {n \in min..max : Viable(s, rest, pos + n)}

\* a greedy repetition: re tries the greatest count first, then the smaller
\* ones, and keeps the first after which the rest of the pattern matches
TryDown(s, rest, pos, caps, counts) ==
  IF counts = {} THEN NoMatch
  ELSE LET n == Greatest(counts)
           r == Match(s, rest, pos + n, caps)
       IN IF r.ok THEN r ELSE TryDown(s, rest, pos, caps, counts \ {n})

\* a lazy repetition: re tries the least count first, then the greater ones
TryUp(s, rest, pos, caps, counts) ==
  IF counts = {} THEN NoMatch
  ELSE LET n == Least(counts)
           r == Match(s, rest, pos + n, caps)
       IN IF r.ok THEN r ELSE TryUp(s, rest, pos, caps, counts \ {n})

\* the first match of items at pos in re's backtracking order
Match(s, items, pos, caps) ==
  IF items = <<>> THEN [ok |-> TRUE, end |-> pos, caps |-> caps]
  ELSE LET it == Head(items)
           rest == Tail(items)
       IN CASE it.t = "lit" ->
                 IF StartsAt(s, it.text, pos) THEN Match(s, rest, pos + Len(it.text), caps)
                 ELSE NoMatch
            [] it.t = "rep" ->
                 LET avail == IF it.many THEN Run(s, pos, it.k)
                              ELSE IF pos <= Len(s) /\ InClass(s[pos], it.k) THEN 1 ELSE 0
                     counts == Counts(s, rest, pos, it.min, avail)
                 IN IF it.greedy THEN TryDown(s, rest, pos, caps, counts)
                    ELSE TryUp(s, rest, pos, caps, counts)
            [] it.t = "open" -> Match(s, rest, pos, [caps EXCEPT ![it.g] = <<pos, pos>>])
            [] it.t = "close" -> Match(s, rest, pos, [caps EXCEPT ![it.g] = <<caps[it.g][1], pos>>])
            [] it.t = "grp" ->
                 LET r == Match(s, it.body \o items, pos, caps)
                 IN IF r.ok THEN r ELSE Match(s, rest, pos, caps)
            [] it.t = "wb" -> IF AtWordBoundary(s, pos) THEN Match(s, rest, pos, caps) ELSE NoMatch

\* m.group(g)
Group(s, m, g) == Slice(s, m.caps[g][1], m.caps[g][2])

\* re.match(pattern, s)
ReMatch(items, s) == Match(s, items, 1, NoCaps)

RECURSIVE FindAll(_, _, _)
\* the matches re.sub and re.finditer find from pos on, left to right and
\* non-overlapping; every pattern of the scripts holds a literal, so no match is empty
FindAll(s, items, pos) ==
  LET starts == {p \in pos..Len(s) : Viable(s, items, p) /\ Match(s, items, p, NoCaps).ok}
  IN IF starts = {} THEN <<>>
     ELSE LET p == Least(starts)
              r == Match(s, items, p, NoCaps)
          IN <<[start |-> p, end |-> r.end, caps |-> r.caps]>> \o FindAll(s, items, r.end)

RECURSIVE Splice(_, _, _, _, _)
\* s with the i-th and later matches replaced by their replacement texts
Splice(s, ms, repl, i, pos) ==
  IF i > Len(ms) THEN Slice(s, pos, Len(s) + 1)
  ELSE Slice(s, pos, ms[i].start) \o repl[i] \o Splice(s, ms, repl, i + 1, ms[i].end)

(***************************************************************************)
(* scripts/convert-tests.py                                                *)
(***************************************************************************)

\* r"(\s*)it\(([^,]+),\s*\(\)\s*=>\s*\{([^}]*(?:\{[^}]*\}[^}]*)*)\}\)"
ct_pattern ==
  <<Open(1), Star(SpaceCls), Close(1)>> \o Lit(<<"i","t","(">>)
  \o <<Open(2), Plus(NotComma), Close(2)>> \o Lit(<<",">>) \o <<Star(SpaceCls)>>
  \o Lit(<<"(",")">>) \o <<Star(SpaceCls)>> \o Lit(<<"=",">">>) \o <<Star(SpaceCls)>> \o Lit(<<"{">>)
  \o <<Open(3), Star(NotRBrace),
       GroupStar(Lit(<<"{">>) \o <<Star(NotRBrace)>> \o Lit(<<"}">>) \o <<Star(NotRBrace)>>),
       Close(3)>>
  \o Lit(<<"}",")">>)

\* the loop of replace_match over the lines of the stripped body
ct_indent_line(line) == IF Strip(line) # <<>> THEN <<" "," ">> \o line ELSE line

ct_indented_body(test_body) ==
  LET lines == SplitLines(test_body)
  IN [i \in 1..Len(lines) |-> ct_indent_line(lines[i])]

replace_match(s, m) ==
  LET indent == Group(s, m, 1)
      test_name == Group(s, m, 2)
      test_body == Strip(Group(s, m, 3))
      indented_body_str == JoinLines(ct_indented_body(test_body))
  IN indent \o <<"i","t",".","e","f","f","e","c","t","(">> \o test_name \o <<","," ","(",")"," ","=",">","\n">>
     \o indent \o <<" "," ","E","f","f","e","c","t",".","g","e","n","(","f","u","n","c","t","i","o","n","*"," ","(",")"," ","{","\n">>
     \o indented_body_str \o <<"\n">>
     \o indent \o <<" "," ","}",")","\n">>
     \o indent \o <<")">>

\* re.sub(pattern, replace_match, content, flags=re.DOTALL)
ct_rewrite(content) ==
  LET ms == FindAll(content, ct_pattern, 1)
  IN Splice(content, ms, [i \in 1..Len(ms) |-> replace_match(content, ms[i])], 1, 1)

\* r"(import\s*\{\s*[^}]*)\}\s*from\s*'vitest'"
ct_import_pattern ==
  <<Open(1)>> \o Lit(<<"i","m","p","o","r","t">>) \o <<Star(SpaceCls)>> \o Lit(<<"{">>)
  \o <<Star(SpaceCls), Star(NotRBrace), Close(1)>> \o Lit(<<"}">>) \o <<Star(SpaceCls)>>
  \o Lit(<<"f","r","o","m">>) \o <<Star(SpaceCls)>> \o Lit(<<"'","v","i","t","e","s","t","'">>)

\* r"(import\s*\{\s*[^}]*?)(}\s*from\s*'effect')"
ct_effect_pattern ==
  <<Open(1)>> \o Lit(<<"i","m","p","o","r","t">>) \o <<Star(SpaceCls)>> \o Lit(<<"{">>)
  \o <<Star(SpaceCls), LazyStar(NotRBrace), Close(1), Open(2)>> \o Lit(<<"}">>)
  \o <<Star(SpaceCls)>> \o Lit(<<"f","r","o","m">>) \o <<Star(SpaceCls)>> \o Lit(<<"'","e","f","f","e","c","t","'">>)
  \o <<Close(2)>>

\* r"import.*from\s*'vitest'" (without DOTALL: . is any character but a newline)
ct_vitest_line_pattern ==
  Lit(<<"i","m","p","o","r","t">>) \o <<Star(Dot)>> \o Lit(<<"f","r","o","m">>) \o <<Star(SpaceCls)>> \o Lit(<<"'","v","i","t","e","s","t","'">>)

\* re.sub(import_pattern, r"\1} from 'vitest'", result)
ct_sub_vitest(result) ==
  LET ms == FindAll(result, ct_import_pattern, 1)
  IN Splice(result, ms,
            [i \in 1..Len(ms) |-> Group(result, ms[i], 1) \o <<"}"," ","f","r","o","m"," ","'","v","i","t","e","s","t","'">>], 1, 1)

\* re.sub(effect_pattern, r'\1, Effect\2', result)
ct_sub_effect(result) ==
  LET ms == FindAll(result, ct_effect_pattern, 1)
  IN Splice(result, ms,
            [i \in 1..Len(ms) |->
               Group(result, ms[i], 1) \o <<","," ","E","f","f","e","c","t">> \o Group(result, ms[i], 2)], 1, 1)

\* the "Add Effect import if not present" block
ct_add_effect_import(result) ==
  IF ~Contains(result, <<"i","m","p","o","r","t"," ","{"," ","E","f","f","e","c","t">>) /\ Contains(result, <<"E","f","f","e","c","t",".","g","e","n">>)
  THEN LET r1 == IF FindAll(result, ct_import_pattern, 1) # <<>>
                 THEN ct_sub_vitest(result) ELSE result
       IN IF Contains(r1, <<"f","r","o","m"," ","'","e","f","f","e","c","t","'">>)
          THEN IF ~Contains(r1, <<","," ","E","f","f","e","c","t">>) THEN ct_sub_effect(r1) ELSE r1
          ELSE LET vitest_line == FindAll(r1, ct_vitest_line_pattern, 1)
               IN IF vitest_line # <<>>
                  THEN LET end_pos == vitest_line[1].end
                       IN Slice(r1, 1, end_pos) \o <<"\n","i","m","p","o","r","t"," ","{"," ","E","f","f","e","c","t"," ","}"," ","f","r","o","m"," ","'","e","f","f","e","c","t","'">>
                          \o Slice(r1, end_pos, Len(r1) + 1)
                  ELSE r1
  ELSE result

ct_convert_it_to_effect(content) == ct_add_effect_import(ct_rewrite(content))

(***************************************************************************)
(* scripts/convert-tests-effect-vitest.py                                  *)
(* (replace_it_test holds a backslash inside an f-string expression, which *)
(* Python accepts from 3.12 on; the model is of the script as 3.12 runs it)*)
(***************************************************************************)

\* the marker of the "Skip if already converted" guards
ev_marker == <<"i","t",".","e","f","f","e","c","t","(">>

\* r"(\s*)it\(([^,]+),\s*(\(\)\s*=>\s*\{)([^}]*(?:\{[^}]*\}[^}]*)*)\}"
ev_it_pattern ==
  <<Open(1), Star(SpaceCls), Close(1)>> \o Lit(<<"i","t","(">>)
  \o <<Open(2), Plus(NotComma), Close(2)>> \o Lit(<<",">>) \o <<Star(SpaceCls)>>
  \o <<Open(3)>> \o Lit(<<"(",")">>) \o <<Star(SpaceCls)>> \o Lit(<<"=",">">>) \o <<Star(SpaceCls)>>
  \o Lit(<<"{">>) \o <<Close(3)>>
  \o <<Open(4), Star(NotRBrace),
       GroupStar(Lit(<<"{">>) \o <<Star(NotRBrace)>> \o Lit(<<"}">>) \o <<Star(NotRBrace)>>),
       Close(4)>>
  \o Lit(<<"}">>)

\* r"(\s*)it\(([^,]+),\s*\(\)\s*=>\s*\{(.*?)\n(\s*)\}\)" with re.DOTALL
ev_remaining_it_pattern ==
  <<Open(1), Star(SpaceCls), Close(1)>> \o Lit(<<"i","t","(">>)
  \o <<Open(2), Plus(NotComma), Close(2)>> \o Lit(<<",">>) \o <<Star(SpaceCls)>>
  \o Lit(<<"(",")">>) \o <<Star(SpaceCls)>> \o Lit(<<"=",">">>) \o <<Star(SpaceCls)>> \o Lit(<<"{">>)
  \o <<Open(3), LazyStar(AnyChar), Close(3)>> \o Lit(<<"\n">>)
  \o <<Open(4), Star(SpaceCls), Close(4)>> \o Lit(<<"}",")">>)

\* the loop of replace_it_test and of replace_complex_it over the body's lines
ev_indent_line(line) == IF Strip(line) # <<>> THEN <<" "," "," "," "," "," ">> \o LStrip(line) ELSE <<>>

ev_indented_lines(body) ==
  LET lines == SplitLines(body)
  IN [i \in 1..Len(lines) |-> ev_indent_line(lines[i])]

replace_it_test(s, m) ==
  LET indent == Group(s, m, 1)
      test_name == Group(s, m, 2)
      arrow_part == Group(s, m, 3)
      test_body == Group(s, m, 4)
      indented_body == JoinLines(ev_indented_lines(Strip(test_body)))
  IN indent \o <<"i","t",".","e","f","f","e","c","t","(">> \o test_name \o <<",">>
     \o Replace(arrow_part, <<"=",">">>, <<"=",">","\n">> \o indent \o <<" "," ","E","f","f","e","c","t",".","g","e","n","(","f","u","n","c","t","i","o","n","*"," ","(",")"," ","{">>)
     \o <<"\n">> \o indented_body \o <<"\n">>
     \o indent \o <<" "," ","}",")">> \o <<"\n">>
     \o indent \o <<")">>

replace_complex_it(s, m) ==
  LET indent == Group(s, m, 1)
      test_name == Group(s, m, 2)
      full_body == Group(s, m, 3)
      indented_body == JoinLines(ev_indented_lines(full_body))
  IN indent \o <<"i","t",".","e","f","f","e","c","t","(">> \o test_name \o <<","," ","(",")"," ","=",">","\n">>
     \o indent \o <<" "," ","E","f","f","e","c","t",".","g","e","n","(","f","u","n","c","t","i","o","n","*"," ","(",")"," ","{","\n">>
     \o indented_body \o <<"\n">>
     \o indent \o <<" "," ","}",")","\n">>
     \o indent \o <<")">>

\* "First pass": re.sub(it_pattern, replace_it_test, content, flags=re.DOTALL)
ev_first_pass(content) ==
  LET ms == FindAll(content, ev_it_pattern, 1)
  IN Splice(content, ms, [i \in 1..Len(ms) |-> replace_it_test(content, ms[i])], 1, 1)

\* re.sub(remaining_it_pattern, replace_complex_it, content, flags=re.DOTALL)
ev_second_pass(content) ==
  LET ms == FindAll(content, ev_remaining_it_pattern, 1)
  IN Splice(content, ms, [i \in 1..Len(ms) |-> replace_complex_it(content, ms[i])], 1, 1)

\* re.sub(pattern, repl, s) for a replacement text without group references
SubText(items, repl, s) ==
  LET ms == FindAll(s, items, 1)
  IN Splice(s, ms, [i \in 1..Len(ms) |-> repl], 1, 1)

\* r"import\s*\{[^}]*\}\s*from\s*['\"]vitest['\"]"
ev_vitest_import ==
  Lit(<<"i","m","p","o","r","t">>) \o <<Star(SpaceCls)>> \o Lit(<<"{">>) \o <<Star(NotRBrace)>> \o Lit(<<"}">>)
  \o <<Star(SpaceCls)>> \o Lit(<<"f","r","o","m">>) \o <<Star(SpaceCls), One(Quote)>> \o Lit(<<"v","i","t","e","s","t">>)
  \o <<One(Quote)>>

\* r"import\s*\{[^}]*\}\s*from\s*['\"]effect['\"]"
ev_effect_import ==
  Lit(<<"i","m","p","o","r","t">>) \o <<Star(SpaceCls)>> \o Lit(<<"{">>) \o <<Star(NotRBrace)>> \o Lit(<<"}">>)
  \o <<Star(SpaceCls)>> \o Lit(<<"f","r","o","m">>) \o <<Star(SpaceCls), One(Quote)>> \o Lit(<<"e","f","f","e","c","t">>)
  \o <<One(Quote)>>

\* r'\bit\s*,?\s*'
ev_it_name == <<WordBoundary>> \o Lit(<<"i","t">>) \o <<Star(SpaceCls), Opt(Cls({","})), Star(SpaceCls)>>

\* r',\s*,', r'\{\s*,' and r',\s*\}'
ev_double_comma == Lit(<<",">>) \o <<Star(SpaceCls)>> \o Lit(<<",">>)
ev_leading_comma == Lit(<<"{">>) \o <<Star(SpaceCls)>> \o Lit(<<",">>)
ev_trailing_comma == Lit(<<",">>) \o <<Star(SpaceCls)>> \o Lit(<<"}">>)

\* the four re.sub calls on a vitest import line
ev_strip_it(line) ==
  SubText(ev_trailing_comma, <<"}">>,
    SubText(ev_leading_comma, <<"{">>,
      SubText(ev_double_comma, <<",">>,
        SubText(ev_it_name, <<>>, line))))

\* "Ensure Effect is in the import"
ev_ensure_effect(line) ==
  IF ~Contains(line, <<","," ","E","f","f","e","c","t">>) /\ ~Contains(line, <<"E","f","f","e","c","t">>)
  THEN Replace(line, <<"}">>, <<","," ","E","f","f","e","c","t","}">>)
  ELSE line

ev_it_import == <<"i","m","p","o","r","t"," ","{"," ","i","t"," ","}"," ","f","r","o","m"," ","'","@","e","f","f","e","c","t","/","v","i","t","e","s","t","'">>
ev_vitest_helpers_import == <<"i","m","p","o","r","t"," ","{"," ","d","e","s","c","r","i","b","e",","," ","e","x","p","e","c","t"," ","}"," ","f","r","o","m"," ","'","v","i","t","e","s","t","'">>
ev_effect_gen_import == <<"i","m","p","o","r","t"," ","{"," ","E","f","f","e","c","t"," ","}"," ","f","r","o","m"," ","'","e","f","f","e","c","t","'">>

\* one iteration of fix_imports' loop over the lines; st holds new_lines and the flags
ev_scan_line(st, line) ==
  IF ReMatch(ev_vitest_import, line).ok
  THEN [new_lines |-> IF ~st.effect_vitest_import_found
                      THEN st.new_lines \o <<ev_strip_it(line), ev_it_import>>
                      ELSE Append(st.new_lines, ev_strip_it(line)),
        vitest_import_found |-> TRUE,
        effect_vitest_import_found |-> TRUE,
        effect_import_found |-> st.effect_import_found]
  ELSE IF ReMatch(ev_effect_import, line).ok
  THEN [st EXCEPT !.new_lines = Append(@, ev_ensure_effect(line)),
                  !.effect_import_found = TRUE]
  ELSE [st EXCEPT !.new_lines = Append(@, line)]

RECURSIVE ev_scan(_, _, _)
ev_scan(st, lines, i) ==
  IF i > Len(lines) THEN st ELSE ev_scan(ev_scan_line(st, lines[i]), lines, i + 1)

\* "Add missing imports if needed"
ev_add_missing(st, content) ==
  LET l1 == IF ~st.vitest_import_found /\ Contains(content, <<"d","e","s","c","r","i","b","e","(">>)
            THEN ListInsert(st.new_lines, 0, ev_vitest_helpers_import)
            ELSE st.new_lines
      l2 == IF ~st.effect_vitest_import_found /\ Contains(content, ev_marker)
            THEN ListInsert(l1, IF ~st.vitest_import_found THEN 1 ELSE 2, ev_it_import)
            ELSE l1
      l3 == IF ~st.effect_import_found /\ Contains(content, <<"E","f","f","e","c","t",".","g","e","n">>)
            THEN ListInsert(l2, IF st.effect_vitest_import_found THEN 2 ELSE 1,
                            ev_effect_gen_import)
            ELSE l2
  IN l3

fix_imports(content) ==
  IF ~Contains(content, ev_marker) THEN content
  ELSE LET st0 == [new_lines |-> <<>>, vitest_import_found |-> FALSE,
                   effect_vitest_import_found |-> FALSE, effect_import_found |-> FALSE]
           st == ev_scan(st0, SplitLines(content), 1)
       IN JoinLines(ev_add_missing(st, content))

\* the guard left out: every text is taken for one still to convert
ev_guard_dropped(content) == FALSE

\* the "Skip if already converted" guard of convert_it_to_effect
ev_already_converted(content) == Contains(content, ev_marker)

ev_convert_it_to_effect(content) ==
  IF ev_already_converted(content) THEN content
  ELSE fix_imports(ev_second_pass(ev_first_pass(content)))

(***************************************************************************)
(* process_file and main of both scripts                                   *)
(***************************************************************************)

\* process_file's test before converting: convert-tests.py "Check if it contains
\* it() tests", convert-tests-effect-vitest.py "Skip if no it() tests or already converted"
needs_conversion(script, content) ==
  IF script = "ct" THEN Contains(content, <<"i","t","(">>)
  ELSE Contains(content, <<"i","t","(">>) /\ ~Contains(content, ev_marker)

\* convert_it_to_effect of the script that runs
convert_it_to_effect(script, content) ==
  IF script = "ct" THEN ct_convert_it_to_effect(content)
  ELSE ev_convert_it_to_effect(content)

\* what a write leaves in the file: open(filepath, 'w') raises and the file is
\* untouched, or it truncates the file and f.write raises, or both succeed
WriteOutcomes == {"ok", "open_raises", "write_raises"}

\* process_file from "Only write if content changed" on, for the text read and
\* its conversion, the write ending in outcome
write_if_changed(content, converted, outcome) ==
  IF converted = content
  THEN [returns |-> FALSE, error |-> FALSE, opened |-> FALSE, holds |-> content]
  ELSE CASE outcome = "ok" ->
              [returns |-> TRUE, error |-> FALSE, opened |-> TRUE, holds |-> converted]
         [] outcome = "open_raises" ->
              [returns |-> FALSE, error |-> TRUE, opened |-> TRUE, holds |-> content]
         [] outcome = "write_raises" ->
              [returns |-> FALSE, error |-> TRUE, opened |-> TRUE, holds |-> <<>>]

\* process_file on a file holding content, the read succeeding or raising and
\* the write ending in outcome: what it returns, whether it printed "Error
\* processing", whether it opened the file for writing, and what the file holds after
process_file(script, content, read_ok, outcome) ==
  IF ~read_ok THEN [returns |-> FALSE, error |-> TRUE, opened |-> FALSE, holds |-> content]
  ELSE IF ~needs_conversion(script, content)
  THEN [returns |-> FALSE, error |-> FALSE, opened |-> FALSE, holds |-> content]
  ELSE write_if_changed(content, convert_it_to_effect(script, content), outcome)

(***************************************************************************)
(* The texts the functions are applied to: an optional import header, one  *)
(* call  <lead>it(<name><arrow><body><closer>  and a trailer.              *)
(***************************************************************************)

\* the longest body enumerated over BodyAlphabet
MaxBodyLen == 2

\* how many times in a row the functions are applied to one text
MaxOps == 2

BodyAlphabet == {"a", " ", "\n", "{", "}"}

RECURSIVE SeqsUpTo(_, _)
SeqsUpTo(A, n) ==
  IF n = 0 THEN {<<>>}
  ELSE LET shorter == SeqsUpTo(A, n - 1)
       IN shorter \cup {Append(b, c) : b \in {x \in shorter : Len(x) = n - 1}, c \in A}

SampleBodies ==
  { <<" ","e","x","p","e","c","t","(","1","+","1",")",".","t","o","B","e","(","2",")"," ">>,
    <<"\n"," "," "," "," ","a","(",")","\n"," "," "," "," "," "," ","b","(",")","\n"," "," "," ","\n"," "," "," "," ","c","(",")","\n"," "," ">>,
    <<" ","f","(","{"," ","x",":"," ","1"," ","}",")"," ">>,
    <<" ","c","o","n","s","t"," ","o"," ","="," ","{"," ","x",":"," ","1"," ","}",";"," ","g","(","o",")"," ">>,
    <<"\n"," "," "," "," ","i","f"," ","(","a",")"," ","{"," ","b","(",")"," ","}","\n"," "," "," "," ","c","(","{","}",")","\n"," "," ">>,
    <<"\n"," "," "," "," ","i","f"," ","(","a",")"," ","{","\n"," "," "," "," "," "," ","f","(","{"," ","x"," ","}",")","\n"," "," "," "," ","}","\n"," "," ">> }

Bodies == SeqsUpTo(BodyAlphabet, MaxBodyLen) \cup SampleBodies

Headers ==
  { <<>>,
    <<"i","m","p","o","r","t"," ","{"," ","i","t",","," ","d","e","s","c","r","i","b","e",","," ","e","x","p","e","c","t"," ","}"," ","f","r","o","m"," ","'","v","i","t","e","s","t","'","\n">>,
    <<"i","m","p","o","r","t"," ","{"," ","i","t"," ","}"," ","f","r","o","m"," ","'","v","i","t","e","s","t","'","\n">>,
    <<"/","/"," ","s","p","e","c","\n","i","m","p","o","r","t"," ","{"," ","d","e","s","c","r","i","b","e",","," ","i","t"," ","}"," ","f","r","o","m"," ","\"","v","i","t","e","s","t","\"","\n">>,
    <<"i","m","p","o","r","t"," ","{"," ","d","e","s","c","r","i","b","e",","," ","i","t",","," ","e","x","p","e","c","t"," ","}"," ","f","r","o","m"," ","'","v","i","t","e","s","t","'","\n","i","m","p","o","r","t"," ","{"," ","p","i","p","e"," ","}"," ","f","r","o","m"," ","'","e","f","f","e","c","t","'","\n">>,
    <<"i","m","p","o","r","t"," ","{"," ","d","e","s","c","r","i","b","e"," ","}"," ","f","r","o","m"," ","'","v","i","t","e","s","t","'","\n">> }

Leads == {<<>>, <<" "," ">>, <<"d","e","s","c","r","i","b","e","(","'","s","'",","," ","(",")"," ","=",">"," ","{","\n"," "," ">>, <<"e","m">>, <<" "," ","a","w","a","i","t"," ","s","u","b",".","w","a">>}

Names == {<<"'","x","'">>, <<"'","x","'"," ","+"," ","n">>, <<"'","a",","," ","b","'">>}

Arrows == {<<","," ","(",")"," ","=",">"," ","{">>, <<",","(",")","=",">","{">>, <<","," ","a","s","y","n","c"," ","(",")"," ","=",">"," ","{">>}

Closers == {<<"}",")">>, <<"}">>}

Trailers ==
  { <<>>, <<"\n">>, <<"\n","}",")","\n">>,
    <<"\n","i","t",".","e","f","f","e","c","t","(","'","y","'",","," ","(",")"," ","=",">"," ","E","f","f","e","c","t",".","g","e","n","(","f","u","n","c","t","i","o","n","*"," ","(",")"," ","{","}",")",")","\n">>,
    <<"\n","c","o","n","s","t"," ","p"," ","="," ","E","f","f","e","c","t",".","g","e","n","(","f","u","n","c","t","i","o","n","*"," ","(",")"," ","{","}",")","\n">> }

\* the shape every family of inputs varies
PlainShape ==
  [header |-> <<>>, lead |-> <<>>, name |-> <<"'","x","'">>, arrow |-> <<","," ","(",")"," ","=",">"," ","{">>,
   body |-> <<" ","e","x","p","e","c","t","(","1","+","1",")",".","t","o","B","e","(","2",")"," ">>, closer |-> <<"}",")">>, trailer |-> <<>>]

\* calls of every body, behind each lead
CallShapes ==
  {[PlainShape EXCEPT !.lead = l, !.body = b, !.closer = c] :
     l \in Leads, b \in Bodies, c \in Closers}

\* calls of every name and arrow, behind each header
NameShapes ==
  {[PlainShape EXCEPT !.header = h, !.lead = l, !.name = n, !.arrow = a] :
     h \in Headers, l \in Leads, n \in Names, a \in Arrows}

\* every header with every trailer
ImportShapes ==
  {[PlainShape EXCEPT !.header = h, !.arrow = a, !.body = b, !.trailer = t] :
     h \in Headers, a \in Arrows, b \in SampleBodies, t \in Trailers}

\* a call inside a describe block, under each header
DescribeShapes ==
  {[PlainShape EXCEPT !.header = h, !.lead = <<"d","e","s","c","r","i","b","e","(","'","s","'",","," ","(",")"," ","=",">"," ","{","\n"," "," ">>, !.body = b,
                      !.trailer = <<"\n","}",")","\n">>] :
     h \in Headers, b \in SampleBodies}

Shapes == CallShapes \cup NameShapes \cup ImportShapes \cup DescribeShapes

\* the text of a shape
Assemble(sh) ==
  sh.header \o sh.lead \o <<"i","t","(">> \o sh.name \o sh.arrow \o sh.body \o sh.closer \o sh.trailer

Scripts == {"ct", "ev"}

(***************************************************************************)
(* The files of a batch run                                                *)
(***************************************************************************)

\* how many files the glob of main discovers
NFiles == 2

\* what a discovered file may hold
FileTexts ==
  { Assemble(PlainShape),
    Assemble([PlainShape EXCEPT !.header = <<"i","m","p","o","r","t"," ","{"," ","i","t",","," ","d","e","s","c","r","i","b","e",","," ","e","x","p","e","c","t"," ","}"," ","f","r","o","m"," ","'","v","i","t","e","s","t","'","\n">>]),
    Assemble([PlainShape EXCEPT !.name = <<"'","a",","," ","b","'">>]),
    Assemble([PlainShape EXCEPT !.trailer = <<"\n","i","t",".","e","f","f","e","c","t","(","'","y","'",","," ","(",")"," ","=",">"," ","E","f","f","e","c","t",".","g","e","n","(","f","u","n","c","t","i","o","n","*"," ","(",")"," ","{","}",")",")","\n">>]),
    <<"d","e","s","c","r","i","b","e","(","'","s","'",","," ","(",")"," ","=",">"," ","{","}",")","\n">> }

(***************************************************************************)
(* State                                                                   *)
(***************************************************************************)
VARIABLES
  script,   \* the script that runs: "ct" convert-tests.py, "ev" convert-tests-effect-vitest.py
  shape,    \* the pieces the text under conversion was assembled from
  content,  \* the text a function is applied to next
  prev,     \* the text the last function was applied to
  ops,      \* the functions applied so far, in order
  fs,       \* what each discovered file holds, by its place in discovery order
  pc,       \* where main stands: "filter", "loop", "done" ("idle": no batch run)
  idx,      \* the place of the file the running loop of main handles next
  files_to_process,  \* the files main's loop handles (ev: those the filter kept)
  converted_count,
  out,      \* the lines printed so far
  raised    \* the files an open, read or write of which has raised

fnvars == <<shape, content, prev, ops>>
batchvars == <<fs, pc, idx, files_to_process, converted_count, out, raised>>
vars == <<script, shape, content, prev, ops, fs, pc, idx, files_to_process,
          converted_count, out, raised>>

NoBatch ==
  /\ fs = <<>>
  /\ pc = "idle"
  /\ idx = 0
  /\ files_to_process = <<>>
  /\ converted_count = 0
  /\ out = <<>>
  /\ raised = {}

\* a text to apply the functions to
Init ==
  /\ script \in Scripts
  /\ shape \in Shapes
  /\ content = Assemble(shape)
  /\ prev = Assemble(shape)
  /\ ops = <<>>
  /\ NoBatch

\* content = convert_it_to_effect(content)
Convert ==
  /\ pc = "idle"
  /\ Len(ops) < MaxOps
  /\ prev' = content
  /\ content' = convert_it_to_effect(script, content)
  /\ ops' = Append(ops, "convert")
  /\ UNCHANGED <<script, shape>>
  /\ UNCHANGED batchvars

\* content = fix_imports(content), of convert-tests-effect-vitest.py
FixImports ==
  /\ pc = "idle"
  /\ script = "ev"
  /\ Len(ops) < MaxOps
  /\ prev' = content
  /\ content' = fix_imports(content)
  /\ ops' = Append(ops, "fix_imports")
  /\ UNCHANGED <<script, shape>>
  /\ UNCHANGED batchvars

Next == Convert \/ FixImports

Spec == Init /\ [][Next]_vars

\* main after glob.glob: convert-tests.py goes straight to its loop over all
\* files, convert-tests-effect-vitest.py first filters them
BatchInit ==
  /\ script \in Scripts
  /\ shape = PlainShape
  /\ content = <<>>
  /\ prev = <<>>
  /\ ops = <<>>
  /\ fs \in [1..NFiles -> FileTexts]
  /\ pc = IF script = "ev" THEN "filter" ELSE "loop"
  /\ idx = 1
  /\ files_to_process = IF script = "ev" THEN <<>> ELSE [i \in 1..NFiles |-> i]
  /\ converted_count = 0
  /\ out = <<>>
  /\ raised = {}

\* one iteration of "Filter out files that don't need conversion": a read that
\* raises is passed over by the bare except
ev_filter ==
  /\ pc = "filter"
  /\ idx <= NFiles
  /\ \E read_ok \in BOOLEAN :
       /\ files_to_process' =
            IF read_ok /\ Contains(fs[idx], <<"i","t","(">>) /\ ~Contains(fs[idx], ev_marker)
            THEN Append(files_to_process, idx) ELSE files_to_process
       /\ raised' = IF read_ok THEN raised ELSE raised \cup {idx}
  /\ idx' = idx + 1
  /\ UNCHANGED <<script, fs, pc, converted_count, out>>
  /\ UNCHANGED fnvars

\* print(f"Processing {total_files} files that need conversion...")
ev_announce ==
  /\ pc = "filter"
  /\ idx > NFiles
  /\ out' = Append(out, [kind |-> "processing", total |-> Len(files_to_process)])
  /\ pc' = "loop"
  /\ idx' = 1
  /\ UNCHANGED <<script, fs, files_to_process, converted_count, raised>>
  /\ UNCHANGED fnvars

\* the lines one iteration of main's loop prints for filepath: process_file's
\* "Error processing {filepath}: {e}" when it caught an error, then main's line
printed(r, filepath) ==
  (IF r.error THEN <<[kind |-> "error", path |-> filepath]>> ELSE <<>>)
  \o <<[kind |-> IF r.returns THEN "converted" ELSE "skipped", path |-> filepath]>>

\* one iteration of main's loop: process_file(filepath) and the line printed for it
main_loop ==
  /\ pc = "loop"
  /\ idx <= Len(files_to_process)
  /\ \E read_ok \in BOOLEAN, outcome \in WriteOutcomes :
       \E r \in {process_file(script, fs[files_to_process[idx]], read_ok, outcome)} :
          /\ fs' = [fs EXCEPT ![files_to_process[idx]] = r.holds]
          /\ out' = out \o printed(r, files_to_process[idx])
          /\ converted_count' = IF r.returns THEN converted_count + 1 ELSE converted_count
          /\ raised' = IF r.error THEN raised \cup {files_to_process[idx]} ELSE raised
  /\ idx' = idx + 1
  /\ UNCHANGED <<script, pc, files_to_process>>
  /\ UNCHANGED fnvars

\* print(f"\nConversion complete: {converted_count}/{total_files} files converted")
main_summary ==
  /\ pc = "loop"
  /\ idx > Len(files_to_process)
  /\ out' = Append(out, [kind |-> "summary", converted |-> converted_count,
                         total |-> Len(files_to_process)])
  /\ pc' = "done"
  /\ UNCHANGED <<script, fs, idx, files_to_process, converted_count, raised>>
  /\ UNCHANGED fnvars

BatchNext == ev_filter \/ ev_announce \/ main_loop \/ main_summary

BatchSpec == BatchInit /\ [][BatchNext]_vars

(***************************************************************************)
(* What the properties speak of                                            *)
(***************************************************************************)

Last(q) == q[Len(q)]

\* the shape's it( is a call of a function named it, not the tail of a longer name
CallsIt(sh) == sh.lead = <<>> \/ Last(sh.lead) \notin WordChars

\* the shape's call is a well-formed legacy call it(<name>, () => { <body> })
WellFormedCall(sh) ==
  /\ CallsIt(sh)
  /\ sh.arrow \in {<<","," ","(",")"," ","=",">"," ","{">>, <<",","(",")","=",">","{">>}
  /\ sh.closer = <<"}",")">>

BraceFree(body) == \A i \in 1..Len(body) : body[i] \notin {"{", "}"}

RECURSIVE BraceDepth(_, _, _, _)
\* the deepest nesting of the braces of body, -1 when they do not balance
BraceDepth(body, i, depth, deepest) ==
  IF i > Len(body) THEN (IF depth = 0 THEN deepest ELSE -1)
  ELSE IF body[i] = "{"
  THEN BraceDepth(body, i + 1, depth + 1, IF depth + 1 > deepest THEN depth + 1 ELSE deepest)
  ELSE IF body[i] = "}"
  THEN (IF depth = 0 THEN -1 ELSE BraceDepth(body, i + 1, depth - 1, deepest))
  ELSE BraceDepth(body, i + 1, depth, deepest)

\* one or more inner {...} pairs that hold no braces themselves
OneLevelNested(body) == BraceDepth(body, 1, 0, 0) = 1

Blank(line) == Strip(line) = <<>>

\* the lines that are not blank
NonBlank(lines) == SelectSeq(lines, LAMBDA l : ~Blank(l))

\* each line without its leading whitespace
Unindented(lines) == [i \in 1..Len(lines) |-> LStrip(lines[i])]

GeneratorOpener == <<"E","f","f","e","c","t",".","g","e","n","(","f","u","n","c","t","i","o","n","*"," ","(",")"," ","{">>

\* where the first generator body of text stands: after the line that opens
\* the generator, up to the first later line that begins with })
GeneratorSpan(text) ==
  LET lines == SplitLines(text)
      openers == {i \in 1..Len(lines) : Contains(lines[i], GeneratorOpener)}
      first == IF openers = {} THEN 0 ELSE Least(openers)
      closers == {j \in 1..Len(lines) : first > 0 /\ j > first /\ StartsAt(LStrip(lines[j]), <<"}",")">>, 1)}
  IN IF closers = {} THEN <<0, 0>> ELSE <<first, Least(closers)>>

HasGenerator(text) == GeneratorSpan(text) # <<0, 0>>

\* the lines of the first generator body of text
GeneratorBody(text) ==
  LET span == GeneratorSpan(text)
  IN SubSeq(SplitLines(text), span[1] + 1, span[2] - 1)

\* the bodies the first substitution of the script captures in text
CapturedBodies(scr, text) ==
  IF scr = "ct"
  THEN LET ms == FindAll(text, ct_pattern, 1) IN [i \in 1..Len(ms) |-> Group(text, ms[i], 3)]
  ELSE LET ms == FindAll(text, ev_it_pattern, 1) IN [i \in 1..Len(ms) |-> Group(text, ms[i], 4)]

\* the legacy-call pattern (ev: either of its two) matches nowhere in text
MatchesNowhere(scr, text) ==
  IF scr = "ct" THEN FindAll(text, ct_pattern, 1) = <<>>
  ELSE FindAll(text, ev_it_pattern, 1) = <<>> /\ FindAll(text, ev_remaining_it_pattern, 1) = <<>>

Balanced(text, open, close) == Count(text, <<open>>) = Count(text, <<close>>)

\* the names a single-line named import lists
ImportedNames(line) ==
  LET lb == Find(line, <<"{">>, 1)
      rb == Find(line, <<"}">>, 1)
      items == Split(Slice(line, lb + 1, rb), <<",">>)
  IN SelectSeq([i \in 1..Len(items) |-> Strip(items[i])], LAMBDA n : n # <<>>)

\* the places of the lines of text that are named imports from 'vitest'
VitestImports(text) ==
  LET lines == SplitLines(text)
  IN {i \in 1..Len(lines) : ReMatch(ev_vitest_import, lines[i]).ok}

\* no empty, leading, trailing or doubled comma between the braces of line
CleanCommas(line) ==
  LET lb == Find(line, <<"{">>, 1)
      rb == Find(line, <<"}">>, 1)
      items == Split(Slice(line, lb + 1, rb), <<",">>)
  IN Len(items) = 1 \/ \A i \in 1..Len(items) : Strip(items[i]) # <<>>

\* the last function applied was f, to prev, giving content
Applied(f) == ops # <<>> /\ Last(ops) = f

(***************************************************************************)
(* Properties                                                              *)
(***************************************************************************)

\* C1: convert_it_to_effect of convert-tests-effect-vitest.py is idempotent: a
\* text that holds the marker it.effect( comes back unchanged, converting a
\* converted text changes nothing, and process_file does not open for writing
\* a file that holds a converted text.
C1_ConvertIdempotent ==
  (script = "ev" /\ Applied("convert"))
  => /\ (ev_already_converted(prev) => content = prev)
     /\ (Len(ops) >= 2 /\ ops[Len(ops) - 1] = "convert" => content = prev)
     /\ ~process_file("ev", content, TRUE, "ok").opened

\* C1's case: a text whose legacy call the first conversion rewrote has been
\* converted a second time
C1_SecondConversion ==
  /\ script = "ev"
  /\ ops = <<"convert", "convert">>
  /\ ev_already_converted(prev)
  /\ prev # Assemble(shape)

\* C2: a text with exactly one well-formed legacy call whose body holds no
\* braces, whatever its test-name expression, is converted to a text with
\* exactly one it.effect( call, of the same first argument, whose generator body
\* is the non-blank lines of the body, in order, up to leading whitespace.
C2_SingleCallConverted ==
  (Applied("convert") /\ Len(ops) = 1 /\ WellFormedCall(shape) /\ BraceFree(shape.body)
     /\ ~Contains(prev, ev_marker))
  => /\ Count(content, <<"i","t",".","e","f","f","e","c","t","(">>) = 1
     /\ Contains(content, <<"i","t",".","e","f","f","e","c","t","(">> \o shape.name \o <<",">>)
     /\ HasGenerator(content)
     /\ Unindented(NonBlank(GeneratorBody(content)))
          = Unindented(NonBlank(SplitLines(Strip(shape.body))))

\* C3: of a legacy call whose body holds exactly one level of nested braces, the
\* body captured is the whole text between the call's opening brace and its own
\* closing brace.
C3_NestedBodyCaptured ==
  (Applied("convert") /\ Len(ops) = 1 /\ WellFormedCall(shape)
     /\ ~Contains(shape.name, <<",">>) /\ ~Contains(prev, ev_marker)
     /\ OneLevelNested(shape.body))
  => CapturedBodies(script, prev) = <<shape.body>>

\* C4: fix_imports is idempotent: applied to its own result it changes nothing,
\* and adds no further import line.
C4_FixImportsIdempotent ==
  (Len(ops) >= 2 /\ Applied("fix_imports") /\ ops[Len(ops) - 1] = "fix_imports")
  => /\ content = prev
     /\ Count(content, ev_it_import) = Count(prev, ev_it_import)
     /\ Count(content, ev_effect_gen_import) = Count(prev, ev_effect_gen_import)
     /\ Count(content, ev_vitest_helpers_import) = Count(prev, ev_vitest_helpers_import)

\* C5: when a batch run has ended, every file whose read or write raised has
\* its "Error processing" line printed, is not counted as converted, and the
\* last line printed is the summary.
C5_ErrorsReported ==
  pc = "done"
  => /\ \A f \in raised :
          /\ \E i \in 1..Len(out) : out[i] = [kind |-> "error", path |-> f]
          /\ \A i \in 1..Len(out) : out[i] # [kind |-> "converted", path |-> f]
     /\ Last(out).kind = "summary"

\* C6: a text in which the legacy-call pattern matches nowhere comes back from
\* convert_it_to_effect unchanged, and process_file neither opens its file for
\* writing nor returns True.
C6_NoMatchUnchanged ==
  (Applied("convert") /\ Len(ops) = 1 /\ MatchesNowhere(script, prev))
  => /\ content = prev
     /\ ~process_file(script, prev, TRUE, "ok").opened
     /\ ~process_file(script, prev, TRUE, "ok").returns

\* C7: fix_imports on a text that holds it.effect( and a named import from
\* 'vitest' listing it leaves that import with every other name, in order, and
\* no stray comma, and the line right after it imports it from '@effect/vitest'.
C7_VitestImportRewritten ==
  (script = "ev" /\ ops = <<"fix_imports">> /\ Contains(prev, ev_marker)
     /\ VitestImports(prev) # {}
     /\ \E n \in 1..Len(ImportedNames(SplitLines(prev)[Least(VitestImports(prev))])) :
          ImportedNames(SplitLines(prev)[Least(VitestImports(prev))])[n] = <<"i","t">>)
  => /\ VitestImports(content) # {}
     /\ ImportedNames(SplitLines(content)[Least(VitestImports(content))])
          = SelectSeq(ImportedNames(SplitLines(prev)[Least(VitestImports(prev))]),
                      LAMBDA n : n # <<"i","t">>)
     /\ CleanCommas(SplitLines(content)[Least(VitestImports(content))])
     /\ Least(VitestImports(content)) < Len(SplitLines(content))
     /\ SplitLines(content)[Least(VitestImports(content)) + 1] = ev_it_import

\* C8: the generator body of a rewritten call is the trimmed body line by line:
\* every non-blank line with one and the same indent put before it, and no
\* blank line other than empty.
C8_BodyReindented ==
  (Applied("convert") /\ Len(ops) = 1 /\ WellFormedCall(shape)
     /\ ~Contains(shape.name, <<",">>) /\ ~Contains(prev, ev_marker)
     /\ BraceFree(shape.body))
  => LET lines == NonBlank(SplitLines(Strip(shape.body)))
         got == NonBlank(GeneratorBody(content))
         pad(i) == Len(got[i]) - Len(lines[i])
     IN /\ Len(got) = Len(lines)
        /\ \A i \in 1..Len(lines) :
             /\ pad(i) >= 0
             /\ got[i] = SubSeq(got[i], 1, pad(i)) \o lines[i]
             /\ got[1] = SubSeq(got[i], 1, pad(i)) \o lines[1]
        /\ \A i \in 1..Len(GeneratorBody(content)) :
             Blank(GeneratorBody(content)[i]) => GeneratorBody(content)[i] = <<>>

\* C9: a rewrite by convert-tests-effect-vitest.py leaves no brace or parenthesis
\* over: a text whose ( and ) and whose { and } are as many has a conversion
\* of which the same holds.
C9_BracketsBalanced ==
  (script = "ev" /\ Applied("convert") /\ Len(ops) = 1 /\ content # prev
     /\ Balanced(prev, "(", ")") /\ Balanced(prev, "{", "}"))
  => (Balanced(content, "(", ")") /\ Balanced(content, "{", "}"))

\* C10: a text in which it( stands only as the tail of a longer identifier comes
\* back from convert_it_to_effect unchanged.
C10_OnlyCallsOfIt ==
  (Applied("convert") /\ Len(ops) = 1 /\ ~CallsIt(shape) /\ ~Contains(prev, ev_marker))
  => content = prev

====
